---- MODULE Spec2Model ----
(***************************************************************************)
(* Row budgeting and table loading of the EVM circuit                      *)
(* (zkevm-circuits/src/evm_circuit.rs).                                    *)
(*                                                                         *)
(* The module models EvmCircuit::load_fixed_table, load_byte_table,        *)
(* get_num_rows_required, get_active_rows and the test harness             *)
(* run_test_circuit / TestCircuit::synthesize.  A fixed column of the      *)
(* layouter is modelled by its height: region.assign_fixed at an offset    *)
(* succeeds iff the offset is below the height.  The calls of synthesize   *)
(* into table.rs and execution.rs and the verdict of the prover are        *)
(* choices over their possible results.                                    *)
(***************************************************************************)
EXTENDS Integers, Sequences, FiniteSets, TLC

VARIABLES
    txs,                 \* block.txs: sequence of transactions, each a sequence of execution states
    bytecodes,           \* block.bytecodes: the byte length of every bytecode
    randomness,          \* block.randomness: the challenge, a field element
    fixed_table_tags,    \* the requested fixed-table tags
    pc,                  \* "input" | "done" | "loaded"
    num_rows_required,   \* run_test_circuit: num_rows_required_for_steps
    k,                   \* run_test_circuit: the exponent k
    power_of_randomness, \* run_test_circuit: the 31 instance columns
    active_gate_rows,    \* run_test_circuit: active_gate_rows
    active_lookup_rows,  \* run_test_circuit: active_lookup_rows
    height,              \* height of the fixed columns of the layouter in use
    fixed_load,          \* outcome of load_fixed_table
    byte_load,           \* outcome of load_byte_table
    failed_call,         \* the call of synthesize that returned Err, or "none"
    outcome              \* "none" | "panic" (MockProver::run(..).unwrap()) | the result
                         \* of verify_at_rows: "Ok" | "Err"

vars == <<txs, bytecodes, randomness, fixed_table_tags, pc, num_rows_required, k,
          power_of_randomness, active_gate_rows, active_lookup_rows, height,
          fixed_load, byte_load, failed_call, outcome>>

----------------------------------------------------------------------------
(* Bounds of the model *)

\* Largest block: number of transactions plus number of steps plus number of
\* bytecodes.
MaxBlockSize == 4
\* Longest tag list passed to run_test_circuit.
MaxTags == 1
\* Longest tag list passed to load_fixed_table alone.
MaxTableTags == 2
\* Largest column height of a layouter used for a single table load.
MaxHeight == 260
\* The field is modelled as the integers modulo FieldModulus.
FieldModulus == 257

(* Program constants *)

U32Bits == 32
Margin == 64
ByteTableRows == 256
NumPowers == 31

----------------------------------------------------------------------------
(* Inputs *)

ExecutionStates == {"S0", "S1", "S2", "S40"}

FixedTableTags == {"Range5", "Range16", "Range64"}

BytecodeLens == {200}

Randomness == {3}

\* ExecutionConfig::get_step_height: a constant number of rows per execution state.
get_step_height(execution_state) ==
    CASE execution_state = "S0" -> 0
      [] execution_state = "S1" -> 1
      [] execution_state = "S2" -> 2
      [] execution_state = "S40" -> 40

\* FixedTableTag as u64.
TagValue(tag) ==
    CASE tag = "Range5" -> 1
      [] tag = "Range16" -> 2
      [] tag = "Range64" -> 4

\* Number of rows FixedTableTag::build yields.
BuildCount(tag) ==
    CASE tag = "Range5" -> 5
      [] tag = "Range16" -> 16
      [] tag = "Range64" -> 64

\* F::from(x): the field element of a u64.
ToField(x) == x % FieldModulus

\* FixedTableTag::build: the rows [tag, value, 0, 0] for value in 0..N-1.
build(tag) ==
    [i \in 1..BuildCount(tag) |-> <<ToField(TagValue(tag)), ToField(i - 1), 0, 0>>]

----------------------------------------------------------------------------
(* Arithmetic helpers *)

RECURSIVE Pow2(_)
Pow2(n) == IF n = 0 THEN 1 ELSE 2 * Pow2(n - 1)

\* Number of significant bits of x.
RECURSIVE BitLen(_)
BitLen(x) == IF x = 0 THEN 0 ELSE 1 + BitLen(x \div 2)

\* (n as u32).leading_zeros(); the cast keeps every n below 2^32, and every
\* integer of the model is below 2^31.
leading_zeros(n) == U32Bits - BitLen(n)

\* a & b on non-negative integers.
RECURSIVE BitAnd(_, _)
BitAnd(a, b) ==
    IF a = 0 \/ b = 0 THEN 0
    ELSE (IF a % 2 = 1 /\ b % 2 = 1 THEN 1 ELSE 0) + 2 * BitAnd(a \div 2, b \div 2)

\* log2_ceil with the power-of-two test replaced by a test of the lowest bit.
log2_ceil_even_test(n) ==
    U32Bits - leading_zeros(n) - (IF n % 2 = 0 THEN 1 ELSE 0)

\* |n| u32::BITS - (n as u32).leading_zeros() - (n & (n - 1) == 0) as u32
log2_ceil(n) ==
    U32Bits - leading_zeros(n) - (IF BitAnd(n, n - 1) = 0 THEN 1 ELSE 0)

\* Field::pow by repeated multiplication in the field.
RECURSIVE FieldPow(_, _)
FieldPow(r, exp) ==
    IF exp = 0 THEN 1 % FieldModulus ELSE (r * FieldPow(r, exp - 1)) % FieldModulus

Max(a, b) == IF a >= b THEN a ELSE b

RECURSIVE SumSeq(_, _)
SumSeq(s, i) == IF i > Len(s) THEN 0 ELSE s[i] + SumSeq(s, i + 1)

----------------------------------------------------------------------------
(* EvmCircuit::get_num_rows_required *)

\* for step in &transaction.steps { num_rows += get_step_height(step.execution_state) }
RECURSIVE StepLoop(_, _, _)
StepLoop(steps, i, num_rows) ==
    IF i > Len(steps) THEN num_rows
    ELSE StepLoop(steps, i + 1, num_rows + get_step_height(steps[i]))

\* for transaction in &block.txs { ... }
RECURSIVE TxLoop(_, _, _)
TxLoop(block_txs, t, num_rows) ==
    IF t > Len(block_txs) THEN num_rows
    ELSE TxLoop(block_txs, t + 1, StepLoop(block_txs[t], 1, num_rows))

\* get_num_rows_required without the reserved `next` row.
get_num_rows_required_from_zero(block_txs) == TxLoop(block_txs, 1, 0)

\* let mut num_rows = 1; ...; num_rows
get_num_rows_required(block_txs) == TxLoop(block_txs, 1, 1)

----------------------------------------------------------------------------
(* EvmCircuit::get_active_rows *)

\* (0..max_offset).collect()
Range0(max_offset) == [i \in 1..max_offset |-> i - 1]

\* get_active_rows with the inclusive range 0..=max_offset.
get_active_rows_inclusive(block_txs) ==
    LET max_offset == get_num_rows_required(block_txs)
    IN  <<Range0(max_offset + 1), Range0(max_offset + 1)>>

get_active_rows(block_txs) ==
    LET max_offset == get_num_rows_required(block_txs)
        gates_row_ids == Range0(max_offset)
        lookup_row_ids == Range0(max_offset)
    IN  <<gates_row_ids, lookup_row_ids>>

----------------------------------------------------------------------------
(* The fixed columns of the layouter *)

fixed_table == <<0, 1, 2, 3>>

byte_table == <<4>>

\* region.assign_fixed(.., column, offset, ..): an offset outside the column is an error.
assign_fixed(H, offset) == offset < H

NotRun == [result |-> "NotRun", assigned |-> <<>>, calls |-> 0, failed_at |-> -1]

\* The assign_fixed calls of a load, numbered 1..n in the order the loops make
\* them: call number c is at offset (c - 1) \div width, width being the number
\* of columns assigned per row.  `?` returns the error of the first failing
\* call, so that call is the last one made and the calls before it have written.
CallOffset(c, width) == (c - 1) \div width

FirstFailure(failing, width) ==
    LET c == CHOOSE c \in failing : \A d \in failing : c <= d
    IN  [result |-> "Err", calls |-> c, written |-> c - 1,
         failed_at |-> CallOffset(c, width)]

AssignCalls(n, width, H) ==
    LET failing == {c \in 1..n : ~assign_fixed(H, CallOffset(c, width))}
    IN  IF failing = {}
        THEN [result |-> "Ok", calls |-> n, written |-> n, failed_at |-> -1]
        ELSE FirstFailure(failing, width)

----------------------------------------------------------------------------
(* EvmCircuit::load_fixed_table *)

\* fixed_table_tags.iter().flat_map(|tag| tag.build())
RECURSIVE FlatMapBuild(_, _)
FlatMapBuild(tags, i) ==
    IF i > Len(tags) THEN <<>> ELSE build(tags[i]) \o FlatMapBuild(tags, i + 1)

\* std::iter::once([F::zero(); 4]).chain(..)
TableRows(tags) == <<<<0, 0, 0, 0>>>> \o FlatMapBuild(tags, 1)

\* The cells written, by column then offset: the call number c assigns
\* rows[offset][column] to column number ((c - 1) % width) + 1 at offset
\* (c - 1) \div width, so after `written` successful calls a column holds the
\* values of the offsets 0 .. ((written + width - column) \div width) - 1.
CellsWritten(rows, written, width) ==
    [column \in 1..width |->
        [o \in 1..((written + width - column) \div width) |-> rows[o][column]]]

LoadRows(rows, H) ==
    LET end == AssignCalls(Len(rows) * Len(fixed_table), Len(fixed_table), H)
    IN  [result |-> end.result,
         assigned |-> CellsWritten(rows, end.written, Len(fixed_table)),
         calls |-> end.calls, failed_at |-> end.failed_at]

\* load_fixed_table without the leading all-zero row.
load_fixed_table_no_sentinel(tags, H) == LoadRows(FlatMapBuild(tags, 1), H)

\* load_fixed_table writing only the rows that fit and returning Ok.
load_fixed_table_truncating(tags, H) ==
    LET rows == TableRows(tags)
        fit == IF Len(rows) <= H THEN rows ELSE SubSeq(rows, 1, H)
    IN  LoadRows(fit, H)

load_fixed_table(tags, H) == LoadRows(TableRows(tags), H)

----------------------------------------------------------------------------
(* EvmCircuit::load_byte_table *)

\* for offset in 0..256: the row [F::from(offset as u64)] of the byte table.
ByteRows(rows, first) == [o \in 1..rows |-> <<ToField(o - 1 + first)>>]

LoadBytes(rows, first, H) ==
    LET end == AssignCalls(rows, Len(byte_table), H)
    IN  [result |-> end.result,
         assigned |-> CellsWritten(ByteRows(rows, first), end.written, Len(byte_table)),
         calls |-> end.calls, failed_at |-> end.failed_at]

\* load_byte_table writing offset + 1 at every offset.
load_byte_table_from_one(H) == LoadBytes(ByteTableRows, 1, H)

load_byte_table(H) == LoadBytes(ByteTableRows, 0, H)

----------------------------------------------------------------------------
(* run_test_circuit *)

\* fixed_table_tags.iter().map(|tag| tag.build::<F>().count()).sum::<usize>()
RECURSIVE SumBuildCounts(_, _)
SumBuildCounts(tags, i) ==
    IF i > Len(tags) THEN 0 ELSE Len(build(tags[i])) + SumBuildCounts(tags, i + 1)

\* block.bytecodes.values().map(|bytecode| bytecode.bytes.len()).sum::<usize>()
SumBytes(bcs) == SumSeq(bcs, 1)

\* ComputeK without the exponent of the rows required for the steps.
ComputeK_no_steps(tags, bcs, rows) ==
    Max(log2_ceil(Margin + SumBuildCounts(tags, 1)), log2_ceil(Margin + SumBytes(bcs)))

\* ComputeK with k.min in place of k.max.
ComputeK_min(tags, bcs, rows) ==
    LET k0 == log2_ceil(Margin + SumBuildCounts(tags, 1))
        k1 == Max(k0, log2_ceil(Margin + SumBytes(bcs)))
        k2 == log2_ceil(Margin + rows)
    IN  IF k1 <= k2 THEN k1 ELSE k2

\* let k = log2_ceil(64 + ..); let k = k.max(log2_ceil(64 + ..)); let k = k.max(..);
ComputeK(tags, bcs, rows) ==
    LET k0 == log2_ceil(Margin + SumBuildCounts(tags, 1))
        k1 == Max(k0, log2_ceil(Margin + SumBytes(bcs)))
    IN  Max(k1, log2_ceil(Margin + rows))

\* vec![elem; n]: the vector of n copies of elem, kept as its element and length.
Vec(elem, n) == [elem |-> elem, len |-> n]

\* PowerOfRandomness with the exponents 0..31.
PowerOfRandomness_from_zero(r, kk) ==
    [exp \in 1..NumPowers |-> Vec(FieldPow(r, exp - 1), Pow2(kk) - Margin)]

\* (1..32).map(|exp| vec![block.randomness.pow(&[exp, 0, 0, 0]); (1 << k) - 64]).collect()
PowerOfRandomness(r, kk) ==
    [exp \in 1..NumPowers |-> Vec(FieldPow(r, exp), Pow2(kk) - Margin)]

\* The calls synthesize makes after the two table loads, in order.
LaterCalls == <<"load_txs", "load_rws", "load_bytecodes", "load_block",
                "assign_block_exact">>

\* What load_txs, load_rws, load_bytecodes, load_block and assign_block_exact
\* can do: all return Ok ("none"), or one of them is the first to return Err.
LaterFailures == {"none"} \cup {LaterCalls[i] : i \in 1..Len(LaterCalls)}

\* load_fixed_table(..)?; load_byte_table(..)?
TableLoads(tags, H) ==
    {[fixed |-> fixed,
      byte |-> IF fixed.result = "Ok" THEN load_byte_table(H) ELSE NotRun] :
        fixed \in {load_fixed_table(tags, H)}}

\* The rest of synthesize after the table loads `tables`, `later` being the
\* first of the later calls to fail: every call but the last is followed by
\* `?`, and the result of assign_block_exact is returned.
Synthesized(tables, later) ==
    LET failed == IF tables.fixed.result # "Ok" THEN "load_fixed_table"
                  ELSE IF tables.byte.result # "Ok" THEN "load_byte_table"
                  ELSE later
    IN  [fixed |-> tables.fixed, byte |-> tables.byte, failed_call |-> failed,
         result |-> IF failed = "none" THEN "Ok" ELSE "Err"]

\* TestCircuit::synthesize on columns of H usable rows: the set of its
\* possible results.
synthesize(tags, H) ==
    UNION {{Synthesized(tables, later) : later \in LaterFailures} :
              tables \in TableLoads(tags, H)}

\* Rows at the end of the 2^k rows that MockProver keeps for blinding and
\* refuses to assign: the number depends on the constraint system.
ReservedRows == {0, 6}

\* prover.verify_at_rows(..): Ok(()) or Err(Vec<VerifyFailure>).
VerifyResults == {"Ok", "Err"}

----------------------------------------------------------------------------
(* State machine *)

\* Size of a block: its transactions plus their steps plus its bytecodes.
BlockSize(block_txs, block_bytecodes) ==
    Len(block_txs) + SumSeq([t \in 1..Len(block_txs) |-> Len(block_txs[t])], 1)
        + Len(block_bytecodes)

Init ==
    /\ txs = <<>>
    /\ bytecodes = <<>>
    /\ randomness \in Randomness
    /\ fixed_table_tags = <<>>
    /\ pc = "input"
    /\ num_rows_required = 0
    /\ k = 0
    /\ power_of_randomness = <<>>
    /\ active_gate_rows = <<>>
    /\ active_lookup_rows = <<>>
    /\ height = 0
    /\ fixed_load = NotRun
    /\ byte_load = NotRun
    /\ failed_call = "none"
    /\ outcome = "none"

results == <<num_rows_required, k, power_of_randomness, active_gate_rows,
             active_lookup_rows, height, fixed_load, byte_load, failed_call, outcome>>

\* The caller adds a transaction to block.txs.
AddTransaction ==
    /\ pc = "input"
    /\ BlockSize(txs, bytecodes) < MaxBlockSize
    /\ txs' = Append(txs, <<>>)
    /\ UNCHANGED <<bytecodes, randomness, fixed_table_tags, pc, results>>

\* The caller appends a step to a transaction.
AppendStep ==
    /\ pc = "input"
    /\ BlockSize(txs, bytecodes) < MaxBlockSize
    /\ \E t \in 1..Len(txs), s \in ExecutionStates :
          txs' = [txs EXCEPT ![t] = Append(@, s)]
    /\ UNCHANGED <<bytecodes, randomness, fixed_table_tags, pc, results>>

\* The caller adds a bytecode to block.bytecodes.
AddBytecode ==
    /\ pc = "input"
    /\ BlockSize(txs, bytecodes) < MaxBlockSize
    /\ \E n \in BytecodeLens : bytecodes' = Append(bytecodes, n)
    /\ UNCHANGED <<txs, randomness, fixed_table_tags, pc, results>>

\* The caller appends a tag to fixed_table_tags.
AppendTag(max) ==
    /\ pc = "input"
    /\ Len(fixed_table_tags) < max
    /\ \E tag \in FixedTableTags : fixed_table_tags' = Append(fixed_table_tags, tag)
    /\ UNCHANGED <<txs, bytecodes, randomness, pc, results>>

\* run_test_circuit(block, fixed_table_tags): MockProver::run synthesizes the
\* circuit on the usable rows of its 2^k rows, unwrap panics on an error, and
\* the result of verify_at_rows is returned.
RunTestCircuit ==
    /\ pc = "input"
    /\ \E rows \in {get_num_rows_required(txs)} :
       \E kk \in {ComputeK(fixed_table_tags, bytecodes, rows)} :
       \E active \in {get_active_rows(txs)} :
       \E reserved \in ReservedRows :
       \E syn \in synthesize(fixed_table_tags, Pow2(kk) - reserved) :
       \E verdict \in VerifyResults :
          /\ num_rows_required' = rows
          /\ k' = kk
          /\ power_of_randomness' = PowerOfRandomness(randomness, kk)
          /\ active_gate_rows' = active[1]
          /\ active_lookup_rows' = active[2]
          /\ height' = Pow2(kk) - reserved
          /\ fixed_load' = syn.fixed
          /\ byte_load' = syn.byte
          /\ failed_call' = syn.failed_call
          /\ outcome' = IF syn.result = "Ok" THEN verdict ELSE "panic"
    /\ pc' = "done"
    /\ UNCHANGED <<txs, bytecodes, randomness, fixed_table_tags>>

\* load_fixed_table on a layouter whose fixed columns have H rows.
LoadFixedTable ==
    /\ pc = "input"
    /\ \E H \in 0..MaxHeight :
          /\ height' = H
          /\ fixed_load' = load_fixed_table(fixed_table_tags, H)
    /\ pc' = "loaded"
    /\ UNCHANGED <<txs, bytecodes, randomness, fixed_table_tags, num_rows_required, k,
                   power_of_randomness, active_gate_rows, active_lookup_rows,
                   byte_load, failed_call, outcome>>

\* load_byte_table on a layouter whose fixed columns have H rows.
LoadByteTable ==
    /\ pc = "input"
    /\ \E H \in 0..MaxHeight :
          /\ height' = H
          /\ byte_load' = load_byte_table(H)
    /\ pc' = "loaded"
    /\ UNCHANGED <<txs, bytecodes, randomness, fixed_table_tags, num_rows_required, k,
                   power_of_randomness, active_gate_rows, active_lookup_rows,
                   fixed_load, failed_call, outcome>>

Next ==
    \/ AddTransaction
    \/ AppendStep
    \/ AddBytecode
    \/ AppendTag(MaxTags)
    \/ RunTestCircuit

Spec == Init /\ [][Next]_vars

NextFixed ==
    \/ AppendTag(MaxTableTags)
    \/ LoadFixedTable

SpecFixed == Init /\ [][NextFixed]_vars

NextByte == LoadByteTable

SpecByte == Init /\ [][NextByte]_vars

----------------------------------------------------------------------------
(* Definitions used to state the properties *)

\* All steps of a block, in trace order.
RECURSIVE Flatten(_, _)
Flatten(block_txs, t) ==
    IF t > Len(block_txs) THEN <<>> ELSE block_txs[t] \o Flatten(block_txs, t + 1)

HeightSum(steps) == SumSeq([i \in 1..Len(steps) |-> get_step_height(steps[i])], 1)

HasHeight(s) == get_step_height(s) # 0

\* The block without its steps of height 0.
WithoutEmptySteps(block_txs) ==
    [t \in 1..Len(block_txs) |-> SelectSeq(block_txs[t], HasHeight)]

\* Sum of the build lengths of the first n tags.
BuildLenSum(tags, n) == SumSeq([i \in 1..n |-> BuildCount(tags[i])], 1)

\* The smallest e with 2^e >= n.
SmallestExponent(n) ==
    CHOOSE e \in 0..(U32Bits - 2) :
        /\ Pow2(e) >= n
        /\ \A d \in 0..(e - 1) : Pow2(d) < n

Max3(a, b, c) == Max(Max(a, b), c)

\* The exponent run_test_circuit computes for the current inputs.
CurrentK == ComputeK(fixed_table_tags, bytecodes, get_num_rows_required(txs))

----------------------------------------------------------------------------
(* Properties *)

\* C1: get_num_rows_required returns 1 plus the sum of the heights of all steps
\* of all transactions: 1 for a block without transactions, 5 for one
\* transaction of heights [1, 2, 1], and steps of height 0 add nothing.
C1_NumRowsRequired ==
    pc = "done" =>
        /\ num_rows_required = 1 + HeightSum(Flatten(txs, 1))
        /\ (txs = <<>> => num_rows_required = 1)
        /\ (txs = << <<"S1", "S2", "S1">> >> => num_rows_required = 5)
        /\ num_rows_required = 1 + HeightSum(Flatten(WithoutEmptySteps(txs), 1))

C1_Witness ==
    /\ pc = "done"
    /\ txs = << <<"S1", "S2", "S1">> >>
    /\ num_rows_required = 5

\* C2: with a sufficient column height load_fixed_table succeeds and writes
\* exactly 1 + sum of the build lengths rows at the offsets 0..count-1 of the 4
\* fixed columns, one call per cell: the all-zero row at offset 0, then the
\* rows of every tag in list order, each tag's rows in build order.
C2_FixedTableRows ==
    (pc = "loaded" /\ height >= 1 + BuildLenSum(fixed_table_tags, Len(fixed_table_tags))) =>
        LET count == 1 + BuildLenSum(fixed_table_tags, Len(fixed_table_tags))
            cells == fixed_load.assigned
        IN  /\ fixed_load.result = "Ok"
            /\ fixed_load.calls = 4 * count
            /\ Len(cells) = 4
            /\ \A column \in 1..4 :
                  /\ Len(cells[column]) = count
                  /\ cells[column][1] = 0
            /\ \A i \in 1..Len(fixed_table_tags) :
               \A j \in 1..BuildCount(fixed_table_tags[i]) :
               \A column \in 1..4 :
                  cells[column][1 + BuildLenSum(fixed_table_tags, i - 1) + j]
                      = build(fixed_table_tags[i])[j][column]
            /\ (fixed_table_tags = <<>> => count = 1)
            /\ (fixed_table_tags = <<"Range5", "Range16">> => count = 22)

C2_Witness ==
    /\ pc = "loaded"
    /\ fixed_table_tags = <<"Range5", "Range16">>
    /\ height >= 22
    /\ fixed_load.result = "Ok"
    /\ Len(fixed_load.assigned[1]) = 22

\* C3 as stated, the fixed-table rows being the rows load_fixed_table writes:
\* k is the smallest exponent with 2^k >= 64 + max(fixed-table rows,
\* bytecode bytes, rows required for the steps).
C3_SmallestExponentOfTableRows ==
    pc = "done" =>
        k = SmallestExponent(
                Margin + Max3(1 + BuildLenSum(fixed_table_tags, Len(fixed_table_tags)),
                              SumSeq(bytecodes, 1), num_rows_required))

\* C3 amended: k is the smallest exponent with 2^k >= 64 + max(sum of the tags'
\* build lengths without the all-zero row, bytecode bytes, rows required for the
\* steps); it is the maximum of the three smallest exponents taken per family,
\* and 7 for an empty block without tables.
C3_SmallestExponent ==
    pc = "done" =>
        LET built == BuildLenSum(fixed_table_tags, Len(fixed_table_tags))
            bytes == SumSeq(bytecodes, 1)
        IN  /\ k = SmallestExponent(Margin + Max3(built, bytes, num_rows_required))
            /\ k = Max3(SmallestExponent(Margin + built),
                        SmallestExponent(Margin + bytes),
                        SmallestExponent(Margin + num_rows_required))
            /\ ((txs = <<>> /\ bytecodes = <<>> /\ fixed_table_tags = <<>>) => k = 7)

C3_Witness ==
    /\ pc = "done"
    /\ fixed_table_tags = <<"Range64">>
    /\ bytecodes = <<>>
    /\ k = 7

\* C4: the height 2^k fits the rows load_fixed_table writes, the 256 rows
\* load_byte_table writes and the rows required for the steps, and synthesize
\* attempts no assignment at an offset >= 2^k.
C4_CircuitFitsTables ==
    pc = "done" =>
        /\ Pow2(k) >= 1 + BuildLenSum(fixed_table_tags, Len(fixed_table_tags))
        /\ Pow2(k) >= ByteTableRows
        /\ Pow2(k) >= num_rows_required
        /\ fixed_load.failed_at < Pow2(k)
        /\ byte_load.failed_at < Pow2(k)

\* C5: get_active_rows returns twice the range 0..get_num_rows_required - 1, in
\* increasing order without gaps, and every row is below 2^k.
C5_ActiveRows ==
    pc = "done" =>
        /\ active_gate_rows = active_lookup_rows
        /\ Len(active_gate_rows) = 1 + HeightSum(Flatten(txs, 1))
        /\ Len(active_gate_rows) = num_rows_required
        /\ \A i \in 1..Len(active_gate_rows) :
              /\ active_gate_rows[i] = i - 1
              /\ active_gate_rows[i] < Pow2(k)
              /\ active_lookup_rows[i] < Pow2(k)

C5_Witness ==
    /\ pc = "done"
    /\ Len(active_gate_rows) = 5
    /\ active_lookup_rows = <<0, 1, 2, 3, 4>>

\* C6: appending a step of any height to any transaction, appending a tag or
\* adding a bytecode never makes the exponent computed for the inputs smaller.
C6_Monotonic ==
    pc = "input" =>
        \E before \in {CurrentK} :
            /\ \A t \in 1..Len(txs), s \in ExecutionStates :
                  ComputeK(fixed_table_tags, bytecodes,
                           get_num_rows_required([txs EXCEPT ![t] = Append(@, s)]))
                      >= before
            /\ \A tag \in FixedTableTags :
                  ComputeK(Append(fixed_table_tags, tag), bytecodes,
                           get_num_rows_required(txs)) >= before
            /\ \A n \in BytecodeLens :
                  ComputeK(fixed_table_tags, Append(bytecodes, n),
                           get_num_rows_required(txs)) >= before

C6_Witness ==
    /\ pc = "input"
    /\ fixed_table_tags = <<"Range64">>
    /\ bytecodes = <<>>
    /\ txs = << <<"S40">> >>
    /\ CurrentK = 7
    /\ ComputeK(fixed_table_tags, bytecodes,
                get_num_rows_required(<< <<"S40", "S40">> >>)) = 8
    /\ ComputeK(fixed_table_tags, <<200>>, get_num_rows_required(txs)) = 9

\* C7: with a column height of at least 256 load_byte_table succeeds with 256
\* calls, all on the single byte-table column, one per offset 0..255, the value
\* at offset i being i; the fixed-table columns are not written.
C7_ByteTable ==
    (pc = "loaded" /\ height >= ByteTableRows) =>
        /\ byte_load.result = "Ok"
        /\ byte_load.calls = 256
        /\ Len(byte_load.assigned) = 1
        /\ Len(byte_load.assigned[1]) = 256
        /\ \A i \in 0..255 : byte_load.assigned[1][i + 1] = i
        /\ fixed_load = NotRun

C7_Witness ==
    /\ pc = "loaded"
    /\ height >= ByteTableRows
    /\ byte_load.result = "Ok"
    /\ byte_load.assigned[1][256] = 255

\* C8: with a column height H below the rows to write load_fixed_table returns
\* the error of the first assignment at offset H: that call is the last one
\* made, the rows 0..H-1 of the table are written and no cell at an offset >= H is.
C8_CapacityError ==
    (pc = "loaded" /\ height < 1 + BuildLenSum(fixed_table_tags, Len(fixed_table_tags))) =>
        LET cells == fixed_load.assigned
        IN  /\ fixed_load.result = "Err"
            /\ fixed_load.failed_at = height
            /\ fixed_load.calls = 4 * height + 1
            /\ \A column \in 1..4 :
                  /\ Len(cells[column]) = height
                  /\ height >= 1 => cells[column][1] = 0
            /\ \A i \in 1..Len(fixed_table_tags) :
               \A j \in 1..BuildCount(fixed_table_tags[i]) :
               \A column \in 1..4 :
                  BuildLenSum(fixed_table_tags, i - 1) + j < height =>
                      cells[column][1 + BuildLenSum(fixed_table_tags, i - 1) + j]
                          = build(fixed_table_tags[i])[j][column]

C8_Witness ==
    /\ pc = "loaded"
    /\ fixed_table_tags = <<"Range5", "Range16">>
    /\ height = 10
    /\ fixed_load.result = "Err"

\* C9: run_test_circuit builds 31 sequences of length 2^k - 64 >= 1; the first
\* holds the challenge r and sequence j + 1 holds the value of sequence j
\* multiplied by r in the field.
C9_PowerOfRandomness ==
    pc = "done" =>
        /\ Len(power_of_randomness) = 31
        /\ \A j \in 1..31 :
              /\ power_of_randomness[j].len = Pow2(k) - 64
              /\ power_of_randomness[j].len >= 1
        /\ power_of_randomness[1].elem = randomness % FieldModulus
        /\ \A j \in 1..30 :
              power_of_randomness[j + 1].elem
                  = (power_of_randomness[j].elem * randomness) % FieldModulus

C9_Witness ==
    /\ pc = "done"
    /\ randomness = 3
    /\ k = 8
    /\ power_of_randomness[2] = [elem |-> 9, len |-> 192]

\* C10: every active row is below 2^k - 64, the length of the
\* power-of-randomness sequences: get_num_rows_required <= 2^k - 64.
C10_ActiveRowsBelowMargin ==
    pc = "done" =>
        /\ num_rows_required <= Pow2(k) - Margin
        /\ \A i \in 1..Len(active_gate_rows) :
              active_gate_rows[i] < power_of_randomness[1].len
        /\ \A i \in 1..Len(active_lookup_rows) :
              active_lookup_rows[i] < power_of_randomness[1].len

C10_Witness ==
    /\ pc = "done"
    /\ num_rows_required = 81
    /\ k = 8
    /\ Len(active_gate_rows) = 81

====
